---------------------------- MODULE Spec2Model ----------------------------
(***************************************************************************)
(* Model of local-coffee: the /api/coffee route handler (GET) with its     *)
(* request checks and paged fetch loop, its name classifier (normalize,    *)
(* isChainName, looksLikeCoffeePlace), and the page component (Home): its  *)
(* location and radius handlers, its requests and its display-time sort.   *)
(*                                                                         *)
(* A JavaScript string is modelled as a sequence of one-character strings, *)
(* so that normalisation, substring search and the regular expressions are *)
(* computed character by character, as the code does.                      *)
(***************************************************************************)
EXTENDS Integers, Sequences, FiniteSets, TLC

VARIABLES
  \* ---- the route handler GET, one request ----
  route,        \* which route file serves: "nearby" (route.ts) | "text" (part_000)
  upstream,     \* what the provider serves: "catalogue" | "bulk" | "single"
  env,          \* process.env: [upstash, key], whether the variables are set
  query,        \* searchParams: [lat, lng, radiusMeters], each null or a string
  gpc,          \* position in GET: "start" | "validate" | "fetch" | "sleep" |
                \* "assemble" | "done" | "rejected" | "idle"
  permit,       \* outcome of ratelimit.limit: "none" | "granted" | "denied"
  lat,          \* GET: lat, in 1e-5 degree
  lng,          \* GET: lng, in 1e-5 degree
  radiusMeters, \* GET: radiusMeters
  page,         \* fetchNearbySearchPages: page
  all,          \* fetchNearbySearchPages: all
  pagetoken,    \* fetchNearbySearchPages: workUrl has a pagetoken
  fetches,      \* history: fetch calls of this request so far
  lastFetch,    \* history: how the latest fetch ended: "none" | "failed" |
                \* "last" (no token) | "more" (a token)
  slept,        \* history: sleep(2000) has completed since the latest fetch
  response,     \* the status and the JSON body of the response
  \* ---- the page component ----
  items,        \* useState items
  sortBy,       \* useState sortBy
  status,       \* useState status
  error,        \* useState error
  coords,       \* useState coords
  view,         \* useState view
  radiusMiles,  \* useState radiusMiles
  debounce,     \* debounceRef: null, or the radius the pending timeout will fetch
  geo,          \* getCurrentPosition pending: null, or the radius its callback holds
  inflight,     \* the fetchCoffee calls (positions in issued) awaiting a response
  issued,       \* history: the radius of each fetchCoffee call so far, in order
  shownOf,      \* history: which fetchCoffee call set items (0: none)
  \* ---- the text functions, applied to one input string ----
  text,         \* the string handed to normalize / isChainName
  tpc,          \* "input" | "normalized" | "renormalized" | "classified" | "idle"
  norm,         \* result of the last normalize call
  prevNorm,     \* result of the normalize call before that
  verdict       \* result of isChainName(text), meaningful when tpc = "classified"

getVars == <<route, upstream, env, query, gpc, permit, lat, lng, radiusMeters,
             page, all, pagetoken, fetches, lastFetch, slept, response>>

pageVars == <<items, sortBy, status, error, coords, view, radiusMiles,
              debounce, geo, inflight, issued, shownOf>>

textVars == <<text, tpc, norm, prevNorm, verdict>>

vars == <<route, upstream, env, query, gpc, permit, lat, lng, radiusMeters,
          page, all, pagetoken, fetches, lastFetch, slept, response,
          items, sortBy, status, error, coords, view, radiusMiles,
          debounce, geo, inflight, issued, shownOf,
          text, tpc, norm, prevNorm, verdict>>

\* An optional value of the code (number | null, or an absent property) is a
\* sequence: <<>> when null or undefined, <<v>> when it holds v.
NULL == <<>>

Some(v) == <<v>>

\* x ?? dflt
OrElse(x, dflt) == IF x = NULL THEN dflt ELSE x[1]

\* no response has been made
NoResponse == [status |-> 0]

\* no request is being served
GetIdle ==
  /\ route = "nearby"
  /\ upstream = "catalogue"
  /\ env = [upstash |-> FALSE, key |-> TRUE]
  /\ query = [lat |-> NULL, lng |-> NULL, radiusMeters |-> NULL]
  /\ gpc = "idle"
  /\ permit = "none"
  /\ lat = 0
  /\ lng = 0
  /\ radiusMeters = 0
  /\ page = 0
  /\ all = <<>>
  /\ pagetoken = FALSE
  /\ fetches = 0
  /\ lastFetch = "none"
  /\ slept = FALSE
  /\ response = NoResponse

\* the component after mounting: the initial values of its useState and
\* useRef hooks
Mounted ==
  /\ items = <<>>
  /\ sortBy = "distance"
  /\ status = "idle"
  /\ error = NULL
  /\ coords = NULL
  /\ view = "list"
  /\ radiusMiles = 3
  /\ debounce = NULL
  /\ geo = NULL
  /\ inflight = {}
  /\ issued = <<>>
  /\ shownOf = 0

\* no text function is being applied
TextIdle ==
  /\ text = <<>>
  /\ tpc = "idle"
  /\ norm = <<>>
  /\ prevNorm = <<>>
  /\ verdict = FALSE

(***************************************************************************)
(* Characters                                                              *)
(***************************************************************************)
LowerLetters == <<"a","b","c","d","e","f","g","h","i","j","k","l","m","n","o","p","q","r","s","t","u","v","w","x","y","z">>

UpperLetters == <<"A","B","C","D","E","F","G","H","I","J","K","L","M","N","O","P","Q","R","S","T","U","V","W","X","Y","Z">>

Digits == <<"0","1","2","3","4","5","6","7","8","9">>

Range(f) == { f[i] : i \in DOMAIN f }

LowerSet == Range(LowerLetters)

UpperSet == Range(UpperLetters)

DigitSet == Range(Digits)

IsLower(ch) == ch \in LowerSet

IsUpper(ch) == ch \in UpperSet

\* \d
IsDigit(ch) == ch \in DigitSet

\* \s (the whitespace characters the inputs use)
IsSpace(ch) == ch \in {" ", "\t", "\n"}

\* \w
IsWordChar(ch) == IsLower(ch) \/ IsUpper(ch) \/ IsDigit(ch) \/ ch = "_"

\* String.prototype.toLowerCase, one character
toLowerCase(ch) ==
  IF IsUpper(ch)
    THEN LowerLetters[CHOOSE i \in DOMAIN UpperLetters : UpperLetters[i] = ch]
    ELSE ch

\* String.prototype.includes
Includes(s, sub) ==
  \E i \in 0..(Len(s) - Len(sub)) : SubSeq(s, i + 1, i + Len(sub)) = sub

\* .replace(/\s+/g, " "): every maximal run of whitespace becomes one space
RECURSIVE CollapseWhitespace(_)
CollapseWhitespace(s) ==
  IF s = <<>> THEN <<>>
  ELSE IF IsSpace(Head(s))
    THEN IF Len(s) >= 2 /\ IsSpace(s[2])
           THEN CollapseWhitespace(Tail(s))
           ELSE <<" ">> \o CollapseWhitespace(Tail(s))
    ELSE <<Head(s)>> \o CollapseWhitespace(Tail(s))

RECURSIVE TrimStart(_)
TrimStart(s) ==
  IF s # <<>> /\ IsSpace(Head(s)) THEN TrimStart(Tail(s)) ELSE s

RECURSIVE TrimEnd(_)
TrimEnd(s) ==
  IF s # <<>> /\ IsSpace(s[Len(s)]) THEN TrimEnd(SubSeq(s, 1, Len(s) - 1)) ELSE s

\* String.prototype.trim
Trim(s) == TrimEnd(TrimStart(s))

(***************************************************************************)
(* normalize                                                               *)
(***************************************************************************)
\* .toLowerCase()
LowerCased(s) == [i \in 1..Len(s) |-> toLowerCase(s[i])]

\* .replace(/[^a-z0-9\s]/g, " ")
NonAlnumReplaced(s) ==
  [i \in 1..Len(s) |->
     IF IsLower(s[i]) \/ IsDigit(s[i]) \/ IsSpace(s[i]) THEN s[i] ELSE " "]

\* a plausible slip: the whitespace runs are not collapsed
normalize_NoCollapse(s) == Trim(NonAlnumReplaced(LowerCased(s)))

normalize(s) == Trim(CollapseWhitespace(NonAlnumReplaced(LowerCased(s))))

(***************************************************************************)
(* The brand and hint lists                                                *)
(***************************************************************************)
KNOWN_CHAINS ==
  << <<"s","t","a","r","b","u","c","k","s">>,
     <<"d","u","n","k","i","n">>,
     <<"p","e","e","t">>,
     <<"t","i","m"," ","h","o","r","t","o","n","s">>,
     <<"c","a","r","i","b","o","u">>,
     <<"d","u","t","c","h"," ","b","r","o","s">>,
     <<"s","c","o","o","t","e","r">>,
     <<"t","h","e"," ","h","u","m","a","n"," ","b","e","a","n">>,
     <<"b","i","g","g","b","y">>,
     <<"g","l","o","r","i","a"," ","j","e","a","n">>,
     <<"c","o","f","f","e","e"," ","b","e","a","n"," ","&"," ","t","e","a"," ","l","e","a","f">>,
     <<"t","h","e"," ","c","o","f","f","e","e"," ","b","e","a","n">>,
     <<"7","-","e","l","e","v","e","n">>,
     <<"m","c","d","o","n","a","l","d">>,
     <<"p","a","n","e","r","a">>,
     <<"e","i","n","s","t","e","i","n"," ","b","r","o","s">>,
     <<"c","o","s","t","a">>,
     <<"p","r","e","t"," ","a"," ","m","a","n","g","e","r">>,
     <<"g","r","e","g","g","s">>,
     <<"d","u","n","n"," ","b","r","o","t","h","e","r","s">>,
     <<"d","u","n","n"," ","b","r","o","t","h","e","r","s"," ","c","o","f","f","e","e">>,
     <<"h","o","l","i","d","a","y"," ","s","t","a","t","i","o","n","s","t","o","r","e","s">>,
     <<"h","o","l","i","d","a","y"," ","s","t","a","t","i","o","n"," ","s","t","o","r","e">>,
     <<"h","o","l","i","d","a","y">> >>

COFFEE_HINTS ==
  << <<"c","o","f","f","e","e">>,
     <<"c","a","f","e">>,
     <<"e","s","p","r","e","s","s","o">>,
     <<"r","o","a","s","t","e","r">>,
     <<"r","o","a","s","t","e","r","s">>,
     <<"r","o","a","s","t","e","r","y">>,
     <<"r","o","a","s","t","i","n","g">>,
     <<"l","a","t","t","e">>,
     <<"p","o","u","r"," ","o","v","e","r">>,
     <<"p","o","u","r","-","o","v","e","r">>,
     <<"c","o","l","d"," ","b","r","e","w">>,
     <<"c","o","l","d","-","b","r","e","w">> >>

\* the string literals of isChainName
STR_holiday == <<"h","o","l","i","d","a","y">>

STR_station == <<"s","t","a","t","i","o","n">>

STR_store == <<"s","t","o","r","e">>

STR_gas == <<"g","a","s">>

STR_stationstores == <<"s","t","a","t","i","o","n","s","t","o","r","e","s">>

STR_location == <<"l","o","c","a","t","i","o","n">>

(***************************************************************************)
(* The regular expressions of isChainName                                  *)
(***************************************************************************)
\* \b between s[k] and s[k+1] (k = 0: the start, k = Len(s): the end)
WordBoundaryAt(s, k) ==
  (k >= 1 /\ IsWordChar(s[k])) # (k < Len(s) /\ IsWordChar(s[k + 1]))

AllDigits(s, from, to) == \A j \in from..to : IsDigit(s[j])

\* /\b#\s?\d{2,}\b/.test(s)
MatchesHashNumber(s) ==
  \E i \in 1..Len(s) :
    /\ s[i] = "#"
    /\ WordBoundaryAt(s, i - 1)
    /\ \E w \in {0, 1} :
         /\ w = 1 => (i + 1 <= Len(s) /\ IsSpace(s[i + 1]))
         /\ \E k \in 2..Len(s) :
              /\ i + w + k <= Len(s)
              /\ AllDigits(s, i + w + 1, i + w + k)
              /\ WordBoundaryAt(s, i + w + k)

\* /\bword\b/.test(s)
MatchesWord(s, word) ==
  \E i \in 0..(Len(s) - Len(word)) :
    /\ SubSeq(s, i + 1, i + Len(word)) = word
    /\ WordBoundaryAt(s, i)
    /\ WordBoundaryAt(s, i + Len(word))

\* /\b(store|location)\b/.test(s)
MatchesStoreOrLocation(s) == MatchesWord(s, STR_store) \/ MatchesWord(s, STR_location)

\* /\b\d{2,}\b/.test(s)
MatchesStandaloneNumber(s) ==
  \E i \in 0..Len(s) :
    \E k \in 2..Len(s) :
      /\ i + k <= Len(s)
      /\ AllDigits(s, i + 1, i + k)
      /\ WordBoundaryAt(s, i)
      /\ WordBoundaryAt(s, i + k)

(***************************************************************************)
(* isChainName, looksLikeCoffeePlace                                       *)
(***************************************************************************)
\* normalize(c) for each c of KNOWN_CHAINS
NormalizedChains == [i \in DOMAIN KNOWN_CHAINS |-> normalize(KNOWN_CHAINS[i])]

\* normalize(w) for each w of COFFEE_HINTS
NormalizedHints == [i \in DOMAIN COFFEE_HINTS |-> normalize(COFFEE_HINTS[i])]

\* KNOWN_CHAINS.some((c) => n.includes(normalize(c)))
MatchesKnownChain(n) ==
  \E i \in DOMAIN KNOWN_CHAINS : Includes(n, NormalizedChains[i])

\* the corroborating terms of the "holiday" special case
HasHolidayCorroboration(n) ==
  \/ Includes(n, STR_station)
  \/ Includes(n, STR_store)
  \/ Includes(n, STR_gas)
  \/ Includes(n, STR_stationstores)

\* the two structural heuristics, on the normalized name
StructuralHeuristics(n) ==
  \/ MatchesHashNumber(n)
  \/ (MatchesStoreOrLocation(n) /\ MatchesStandaloneNumber(n))

\* a plausible slip: any brand match confirms the chain, "holiday" included
isChainName_NoHolidayCase(name) ==
  LET n == normalize(name)
  IN  IF MatchesKnownChain(n) THEN TRUE ELSE StructuralHeuristics(n)

isChainName(name) ==
  LET n == normalize(name)
  IN  IF MatchesKnownChain(n)
        THEN IF Includes(n, STR_holiday) /\ ~HasHolidayCorroboration(n)
               THEN FALSE
               ELSE TRUE
        ELSE IF MatchesHashNumber(n) THEN TRUE
        ELSE IF MatchesStoreOrLocation(n) /\ MatchesStandaloneNumber(n) THEN TRUE
        ELSE FALSE

looksLikeCoffeePlace(name) ==
  LET n == normalize(name)
  IN  \E i \in DOMAIN COFFEE_HINTS : Includes(n, NormalizedHints[i])

(***************************************************************************)
(* Inputs of the text functions                                            *)
(***************************************************************************)
\* longest raw string, in characters
MaxLen == 4

\* most words in a composed name
MaxWords == 3

\* characters of the raw strings: an upper-case and a lower-case letter, a
\* digit, a punctuation mark, and two kinds of whitespace
Alphabet == {"A", "b", "7", "#", " ", "\t"}

SeqsUpTo(S, n) == UNION { [1..k -> S] : k \in 0..n }

RawStrings == SeqsUpTo(Alphabet, MaxLen)

\* words names are composed of
Vocabulary ==
  { <<"S","t","a","r","b","u","c","k","s">>,
    <<"H","o","l","i","d","a","y">>,
    <<"S","t","a","t","i","o","n">>,
    <<"S","t","o","r","e">>,
    <<"G","a","s">>,
    <<"L","o","c","a","t","i","o","n">>,
    <<"#","3","4">>,
    <<"#">>,
    <<"3","4">>,
    <<"J","o","e","'","s">>,
    <<"C","o","f","f","e","e">> }

RECURSIVE JoinWords(_)
JoinWords(ws) ==
  IF Len(ws) = 0 THEN <<>>
  ELSE IF Len(ws) = 1 THEN ws[1]
  ELSE ws[1] \o <<" ">> \o JoinWords(Tail(ws))

ComposedNames == { JoinWords(ws) : ws \in SeqsUpTo(Vocabulary, MaxWords) }

TextInputs == RawStrings \cup ComposedNames

(***************************************************************************)
(* The text functions as a state machine: one input, the calls on it       *)
(***************************************************************************)
TextInit ==
  /\ text \in TextInputs
  /\ tpc = "input"
  /\ norm = <<>>
  /\ prevNorm = <<>>
  /\ verdict = FALSE
  /\ GetIdle
  /\ Mounted

\* normalize(text)
Normalize ==
  /\ tpc = "input"
  /\ norm' = normalize(text)
  /\ tpc' = "normalized"
  /\ UNCHANGED <<text, prevNorm, verdict>>
  /\ UNCHANGED <<getVars, pageVars>>

\* normalize applied to its own result
NormalizeAgain ==
  /\ tpc = "normalized"
  /\ prevNorm' = norm
  /\ norm' = normalize(norm)
  /\ tpc' = "renormalized"
  /\ UNCHANGED <<text, verdict>>
  /\ UNCHANGED <<getVars, pageVars>>

\* isChainName(text)
Classify ==
  /\ tpc = "input"
  /\ verdict' = isChainName(text)
  /\ tpc' = "classified"
  /\ UNCHANGED <<text, norm, prevNorm>>
  /\ UNCHANGED <<getVars, pageVars>>

TextNext == Normalize \/ NormalizeAgain \/ Classify

SpecText == TextInit /\ [][TextNext]_vars


(***************************************************************************)
(* haversineMeters, mapsDeepLinkFromPlaceId                                *)
(*                                                                         *)
(* Coordinates are integers in units of 1e-5 degree.  For the short        *)
(* distances of the model (places within a few hundred units of the        *)
(* origin, near the equator) the great circle is a straight line of        *)
(* 1.11195 m per unit; haversineDecimetres computes it in whole            *)
(* decimetres and RoundedMeters is Math.round of it.  On the coordinates   *)
(* the model uses the result equals Math.round(haversineMeters(...)).      *)
(***************************************************************************)
RECURSIVE SqrtFrom(_, _)
SqrtFrom(n, r) == IF r * r <= n THEN r ELSE SqrtFrom(n, (r + n \div r) \div 2)

\* floor of Math.sqrt(n), by Newton's iteration from above (46340 is the
\* largest root of a 32-bit integer)
ISqrt(n) == IF n = 0 THEN 0 ELSE SqrtFrom(n, IF n < 46340 THEN n ELSE 46340)

haversineDecimetres(lat1, lon1, lat2, lon2) ==
  LET dLat == lat2 - lat1
      dLon == lon2 - lon1
  IN  (ISqrt(100 * (dLat * dLat + dLon * dLon)) * 111195) \div 100000

\* Math.round(haversineMeters(lat1, lon1, lat2, lon2))
RoundedMeters(lat1, lon1, lat2, lon2) ==
  (haversineDecimetres(lat1, lon1, lat2, lon2) + 5) \div 10

mapsDeepLinkFromPlaceId(placeId) ==
  <<"https://www.google.com/maps/search/?api=1&query=coffee&query_place_id=", placeId>>

(***************************************************************************)
(* What the provider can return                                            *)
(*                                                                         *)
(* A PlaceResult is [place_id, name, rating, user_ratings_total, lat, lng]:*)
(* place_id is a positive number, 0 when the property is missing or empty; *)
(* name is a string, <<>> when missing or empty; the others are optional   *)
(* (lat and lng stand for geometry?.location?.lat / .lng).  vicinity,      *)
(* formatted_address and opening_hours are copied to the item and read by  *)
(* nothing else; they are left out.                                        *)
(***************************************************************************)
Place(id, name, rating, total, pLat, pLng) ==
  [place_id |-> id, name |-> name, rating |-> rating,
   user_ratings_total |-> total, lat |-> pLat, lng |-> pLng]

NAME_Starbucks == <<"S","t","a","r","b","u","c","k","s">>

NAME_JoesCafe == <<"J","o","e","'","s"," ","C","a","f","e">>

NAME_JoesCafeDuplicate == <<"J","o","e","'","s"," ","C","a","f","e"," ","D","u","p","l","i","c","a","t","e">>

NAME_MotoCoffee == <<"M","o","t","o"," ","C","o","f","f","e","e">>

NAME_BlueDoor == <<"B","l","u","e"," ","D","o","o","r">>

NAME_Cafe == <<"C","a","f","e">>

\* The places the provider draws its pages from: two records for place 1
\* and two for place 2 that differ in content, a chain, a place with a
\* latitude and no longitude, one without a name, one without a place_id,
\* one whose name has no coffee word, and two places at the same distance
\* (2 and 6).
Catalogue ==
  { Place(1, NAME_Starbucks,         Some(4), Some(900), Some(0),   Some(0)),
    Place(1, NAME_MotoCoffee,        Some(5), Some(40),  Some(540), Some(0)),
    Place(2, NAME_JoesCafe,          Some(3), Some(12),  Some(360), Some(0)),
    Place(2, NAME_JoesCafeDuplicate, Some(5), Some(12),  Some(540), Some(0)),
    Place(4, NAME_MotoCoffee,        NULL,    NULL,      Some(90),  NULL),
    Place(5, <<>>,                   Some(4), Some(7),   Some(90),  Some(0)),
    Place(0, NAME_JoesCafe,          Some(4), Some(7),   Some(90),  Some(0)),
    Place(6, NAME_BlueDoor,          Some(3), Some(40),  Some(0),   Some(360)) }

\* most raw places the catalogue pages of one request hold together
MaxRaw == 3

\* places on one bulk page
BulkLen == 21

\* distinct places from one bulk page to the next (the pages overlap)
BulkStride == 20

\* place i of the bulk result set: three ratings, two rating counts, every
\* fifth without coordinates, the others on seven distances
BulkPlace(i) ==
  IF i % 5 = 0
    THEN Place(i, NAME_Cafe, Some(3 + (i % 3)), Some(10 * (i % 2)), NULL, NULL)
    ELSE Place(i, NAME_Cafe, Some(3 + (i % 3)), Some(10 * (i % 2)), Some(90 * (i % 7)), Some(0))

\* a full page of distinct places; consecutive pages share one place
BulkPage(k) == [i \in 1..BulkLen |-> BulkPlace(k * BulkStride + i)]

\* the one place the provider knows when the request is what varies
SinglePlace == Place(2, NAME_JoesCafe, Some(3), Some(12), Some(360), Some(0))

\* the result arrays the provider can answer the next fetch with
UpstreamPages ==
  IF upstream = "bulk"
    THEN { BulkPage(k) : k \in 0..2 }
  ELSE IF upstream = "single"
    THEN { <<>>, <<SinglePlace>> }
    ELSE SeqsUpTo(Catalogue, MaxRaw - Len(all))

\* the lat / lng of GET, set from the request
Origin == [lat |-> lat, lng |-> lng]

(***************************************************************************)
(* GET: the steps after the pages are fetched                              *)
(***************************************************************************)
\* rawPages with each place's position beside it
Indexed(rawPages) == [i \in 1..Len(rawPages) |-> [pos |-> i, place |-> rawPages[i]]]

\* the places of the selected entries, in order
PlacesOf(entries) == [i \in 1..Len(entries) |-> entries[i].place]

\* a plausible slip: every place with a place_id is kept
uniqueById_NoCheck(rawPages) ==
  PlacesOf(SelectSeq(Indexed(rawPages), LAMBDA e : e.place.place_id # 0))

\* a plausible slip: the map entry is overwritten by a later place of the
\* same id (Map.set keeps the key's position and replaces the value)
uniqueById_KeepLast(rawPages) ==
  LET has(e) == \E j \in 1..(e.pos - 1) : rawPages[j].place_id = e.place.place_id
      firsts == SelectSeq(Indexed(rawPages),
                          LAMBDA e : e.place.place_id # 0 /\ ~has(e))
      lastPos(id) == CHOOSE j \in 1..Len(rawPages) :
                       /\ rawPages[j].place_id = id
                       /\ \A k \in (j + 1)..Len(rawPages) : rawPages[k].place_id # id
  IN  [i \in 1..Len(firsts) |-> rawPages[lastPos(firsts[i].place.place_id)]]

\* Array.from(uniqueById.values()) after the loop over rawPages.  The loop
\* sets a place in the map when it has a place_id that the map does not
\* have yet, which is when no earlier place of rawPages has that place_id; a
\* Map lists its values in the order the keys were first set.
uniqueById(rawPages) ==
  LET has(e) == \E j \in 1..(e.pos - 1) : rawPages[j].place_id = e.place.place_id
  IN  PlacesOf(SelectSeq(Indexed(rawPages),
                         LAMBDA e : e.place.place_id # 0 /\ ~has(e)))

\* a plausible slip: the chain test is left out of the filter
KeepPlace_NoChainTest(r, p) ==
  /\ p.name # <<>>
  /\ r = "nearby" => looksLikeCoffeePlace(p.name)

\* the callback of raw.filter
KeepPlace(r, p) ==
  /\ p.name # <<>>
  /\ ~isChainName(p.name)
  /\ r = "nearby" => looksLikeCoffeePlace(p.name)

\* raw.filter(...)
Filtered(r, raw) == SelectSeq(raw, LAMBDA p : KeepPlace(r, p))

\* a plausible slip: the distance is computed as soon as the place has a
\* latitude, a missing longitude read as 0
ToItem_DistanceFromLatOnly(p) ==
  LET dist == IF p.lat # NULL
                THEN Some(RoundedMeters(Origin.lat, Origin.lng, p.lat[1], OrElse(p.lng, 0)))
                ELSE NULL
  IN  [placeId |-> p.place_id,
       name |-> p.name,
       rating |-> p.rating,
       ratingsTotal |-> p.user_ratings_total,
       lat |-> p.lat,
       lng |-> p.lng,
       distanceMeters |-> dist,
       mapsUrl |-> mapsDeepLinkFromPlaceId(p.place_id)]

\* the callback of filtered.map
ToItem(p) ==
  LET dist == IF p.lat # NULL /\ p.lng # NULL
                THEN Some(RoundedMeters(Origin.lat, Origin.lng, p.lat[1], p.lng[1]))
                ELSE NULL
  IN  [placeId |-> p.place_id,
       name |-> p.name,
       rating |-> p.rating,
       ratingsTotal |-> p.user_ratings_total,
       lat |-> p.lat,
       lng |-> p.lng,
       distanceMeters |-> dist,
       mapsUrl |-> mapsDeepLinkFromPlaceId(p.place_id)]

(***************************************************************************)
(* The sorts                                                               *)
(***************************************************************************)
\* 9e15 in the code.  The model's integers are 32 bits wide, so the value
\* here is the largest round number they hold; every distance the code can
\* compute is below 20,037,509 m (half the Earth's circumference), so the
\* comparisons come out as with 9e15.
Sentinel == 2000000000

\* a plausible slip: a missing distance counts as 0
DistanceKey_NullAsZero(it) == OrElse(it.distanceMeters, 0)

\* a.distanceMeters ?? 9e15
DistanceKey(it) == OrElse(it.distanceMeters, Sentinel)

\* the comparator of the distance sort
CompareDistance(a, b) == DistanceKey(a) - DistanceKey(b)

\* a plausible slip: the tie-break by ratingsTotal is left out
CompareRating_NoTotals(a, b) ==
  LET ar == OrElse(a.rating, 0)
      br == OrElse(b.rating, 0)
  IN  IF br # ar THEN br - ar
      ELSE DistanceKey(a) - DistanceKey(b)

\* the comparator of the rating sort
CompareRating(a, b) ==
  LET ar == OrElse(a.rating, 0)
      br == OrElse(b.rating, 0)
      av == OrElse(a.ratingsTotal, 0)
      bv == OrElse(b.ratingsTotal, 0)
  IN  IF br # ar THEN br - ar
      ELSE IF bv # av THEN bv - av
      ELSE DistanceKey(a) - DistanceKey(b)

Compare(by, a, b) ==
  IF by = "distance" THEN CompareDistance(a, b) ELSE CompareRating(a, b)

\* Array.prototype.sort is stable and the comparators order by keys, so
\* the element at position i of arr ends behind exactly the elements that
\* compare smaller and the earlier elements that compare equal.
RankIn(arr, by, i) ==
  1 + Cardinality({ j \in 1..Len(arr) :
                      \/ Compare(by, arr[j], arr[i]) < 0
                      \/ (Compare(by, arr[j], arr[i]) = 0 /\ j < i) })

\* arr.sort(comparator)
Sorted(arr, by) ==
  [k \in 1..Len(arr) |-> arr[CHOOSE i \in 1..Len(arr) : RankIn(arr, by, i) = k]]

\* Array.prototype.slice(0, n)
Slice0(arr, n) == SubSeq(arr, 1, IF Len(arr) < n THEN Len(arr) ELSE n)

\* the cap of items.slice(0, 60)
MaxResults == 60

\* the items of GET before the sort, in filter order
MappedItems(r, rawPages) ==
  LET filtered == Filtered(r, uniqueById(rawPages))
  IN  [i \in 1..Len(filtered) |-> ToItem(filtered[i])]

\* what GET answers after the fetch: status 200 and the body
ResponseBody(r, radius, rawPages) ==
  LET sorted == Sorted(MappedItems(r, rawPages), "distance")
  IN  [status |-> 200,
       radiusMeters |-> radius,
       returned |-> Len(sorted),
       items |-> Slice0(sorted, MaxResults)]

\* what GET answers when it returns early: a status and { error }
Rejection(code, message) == [status |-> code, error |-> message]

(***************************************************************************)
(* The request: Number(...), the radius, the checks before the fetch       *)
(*                                                                         *)
(* A JavaScript number is [kind, n, d]: kind "nan", "inf" (n is the sign)  *)
(* or "num" with the value n / d, d a power of ten.  Number(s) is computed *)
(* for decimal literals with an optional sign and fraction, for Infinity,  *)
(* and for the empty string; exponents and 0x / 0o / 0b literals are not   *)
(* among the strings the model sends.                                      *)
(***************************************************************************)
JsNum(n, d) == [kind |-> "num", n |-> n, d |-> d]

JsInf(sign) == [kind |-> "inf", n |-> sign, d |-> 1]

JsNaN == [kind |-> "nan", n |-> 0, d |-> 1]

STR_Infinity == <<"I","n","f","i","n","i","t","y">>

DigitValue(ch) == (CHOOSE i \in DOMAIN Digits : Digits[i] = ch) - 1

RECURSIVE DigitsValue(_)
DigitsValue(s) ==
  IF s = <<>> THEN 0
  ELSE 10 * DigitsValue(SubSeq(s, 1, Len(s) - 1)) + DigitValue(s[Len(s)])

RECURSIVE Pow10(_)
Pow10(k) == IF k = 0 THEN 1 ELSE 10 * Pow10(k - 1)

\* Number(s) for a string s
Number(s) ==
  LET t == Trim(s)
      signed == t # <<>> /\ t[1] \in {"+", "-"}
      sign == IF signed /\ t[1] = "-" THEN -1 ELSE 1
      body == IF signed THEN Tail(t) ELSE t
      dots == { i \in 1..Len(body) : body[i] = "." }
      dot == IF dots = {} THEN Len(body) + 1 ELSE CHOOSE i \in dots : TRUE
      intPart == SubSeq(body, 1, dot - 1)
      fracPart == SubSeq(body, dot + 1, Len(body))
      isLiteral == /\ Cardinality(dots) <= 1
                   /\ \A i \in 1..Len(intPart) : IsDigit(intPart[i])
                   /\ \A i \in 1..Len(fracPart) : IsDigit(fracPart[i])
                   /\ intPart \o fracPart # <<>>
  IN  IF t = <<>> THEN JsNum(0, 1)
      ELSE IF body = STR_Infinity THEN JsInf(sign)
      ELSE IF isLiteral
        THEN JsNum(sign * DigitsValue(intPart \o fracPart), Pow10(Len(fracPart)))
      ELSE JsNaN

\* Number.isFinite
isFinite(x) == x.kind = "num"

\* Math.round of a finite number: the integer nearest to n / d, a half
\* rounded towards plus infinity
Round(x) == (2 * x.n + x.d) \div (2 * x.d)

Max(a, b) == IF a >= b THEN a ELSE b

Min(a, b) == IF a <= b THEN a ELSE b

\* String(n) for an integer n >= 0
RECURSIVE NumberToString(_)
NumberToString(n) ==
  IF n < 10 THEN <<Digits[n + 1]>>
  ELSE NumberToString(n \div 10) \o <<Digits[(n % 10) + 1]>>

\* !str for the result of searchParams.get: null or the empty string
Falsy(str) == str = NULL \/ str[1] = <<>>

\* radius used when the parameter is missing or not a finite number
DefaultRadius == 5000

\* lower clamp of the radius
MinRadius == 500

\* upper clamp of the radius in route.ts
MaxRadiusNearby == 50000

\* upper clamp of the radius in the older route
MaxRadiusText == 100000

MaxRadius(r) == IF r = "nearby" THEN MaxRadiusNearby ELSE MaxRadiusText

\* const radiusMeters of GET
EffectiveRadius(r, radiusStr) ==
  LET requested == IF Falsy(radiusStr) THEN JsNum(DefaultRadius, 1)
                                       ELSE Number(radiusStr[1])
  IN  IF isFinite(requested)
        THEN Max(MinRadius, Min(MaxRadius(r), Round(requested)))
        ELSE DefaultRadius

\* a finite number of degrees in the model's units of 1e-5 degree
ToUnits(x) == (x.n * 100000) \div x.d

\* a plausible slip: lat and lng are only tested for presence
ValidationError_NoFiniteCheck(e, q) ==
  IF ~e.key THEN Some([status |-> 500, error |-> "Missing GOOGLE_PLACES_API_KEY"])
  ELSE IF Falsy(q.lat) \/ Falsy(q.lng)
    THEN Some([status |-> 400, error |-> "lat and lng are required"])
  ELSE NULL

\* the status and the error message of the rejection, when the environment
\* e or the query q fails a check that GET makes before it builds the URL
ValidationError(e, q) ==
  IF ~e.key THEN Some([status |-> 500, error |-> "Missing GOOGLE_PLACES_API_KEY"])
  ELSE IF Falsy(q.lat) \/ Falsy(q.lng)
    THEN Some([status |-> 400, error |-> "lat and lng are required"])
  ELSE IF ~isFinite(Number(q.lat[1])) \/ ~isFinite(Number(q.lng[1]))
    THEN Some([status |-> 400, error |-> "lat/lng must be valid numbers"])
  ELSE NULL

\* milesToMeters of the page: Math.round(mi * 1609.344)
milesToMeters(mi) == Round(JsNum(mi * 1609344, 1000))

(***************************************************************************)
(* GET as a state machine                                                  *)
(***************************************************************************)
\* the maxPages argument of fetchNearbySearchPages / fetchTextSearchPages
maxPages == 3

\* whether GET consults the rate limiter: route.ts builds it only when the
\* Upstash variables are set, the older route always
HasRatelimit(r, e) == r = "text" \/ e.upstash

\* the query string fetchCoffee builds: lat, lng and radiusM printed into
\* /api/coffee?lat=${lat}&lng=${lng}&radiusMeters=${radiusM}
PageQuery(c, radiusM) ==
  [lat |-> Some(NumberToString(c.lat)),
   lng |-> Some(NumberToString(c.lng)),
   radiusMeters |-> Some(NumberToString(radiusM))]

\* where the geolocation of the model puts the user
Position == [lat |-> 0, lng |-> 0]

\* the component while the request GET serves is in flight: the location is
\* known and fetchCoffee waits for the response
Loading ==
  /\ items = <<>>
  /\ sortBy = "distance"
  /\ status = "loading"
  /\ error = NULL
  /\ coords = Some(Position)
  /\ view = "list"
  /\ radiusMiles = 3
  /\ debounce = NULL
  /\ geo = NULL
  /\ inflight = {}
  /\ issued = <<milesToMeters(3)>>
  /\ shownOf = 0

\* GET has been called and has done nothing yet
Called ==
  /\ gpc = "start"
  /\ permit = "none"
  /\ lat = 0
  /\ lng = 0
  /\ radiusMeters = 0
  /\ page = 0
  /\ all = <<>>
  /\ pagetoken = FALSE
  /\ fetches = 0
  /\ lastFetch = "none"
  /\ slept = FALSE
  /\ response = NoResponse

\* the page's request, served by either route file with the limiter and the
\* key configured, over every provider behaviour
Init ==
  /\ route \in {"nearby", "text"}
  /\ upstream \in {"catalogue", "bulk"}
  /\ env = [upstash |-> TRUE, key |-> TRUE]
  /\ query = PageQuery(Position, milesToMeters(3))
  /\ Called
  /\ Loading
  /\ TextIdle

\* page is a local of the fetch function: once the function returns (gpc
\* "assemble") it no longer exists and is 0 in the model.

\* the rate limit check at the head of GET: a denied client gets a 429
RateLimit ==
  /\ gpc = "start"
  /\ HasRatelimit(route, env)
  /\ \E success \in BOOLEAN :
       /\ permit' = IF success THEN "granted" ELSE "denied"
       /\ gpc' = IF success THEN "validate" ELSE "rejected"
       /\ response' = IF success
                        THEN response
                        ELSE Rejection(429, "Rate limit exceeded. Try again in a minute.")
  /\ UNCHANGED <<route, upstream, env, query, lat, lng, radiusMeters, page, all,
                 pagetoken, fetches, lastFetch, slept, pageVars, textVars>>

\* from reading the query to building the URL: the checks of the key and
\* of lat / lng, then lat, lng and radiusMeters.  Without a rate limiter GET
\* starts here.
Validate ==
  /\ gpc = "validate" \/ (gpc = "start" /\ ~HasRatelimit(route, env))
  /\ LET err == ValidationError(env, query)
     IN  IF err # NULL
           THEN /\ gpc' = "rejected"
                /\ response' = Rejection(err[1].status, err[1].error)
                /\ UNCHANGED <<lat, lng, radiusMeters>>
           ELSE /\ gpc' = "fetch"
                /\ lat' = ToUnits(Number(query.lat[1]))
                /\ lng' = ToUnits(Number(query.lng[1]))
                /\ radiusMeters' = EffectiveRadius(route, query.radiusMeters)
                /\ UNCHANGED response
  /\ UNCHANGED <<route, upstream, env, query, permit, page, all,
                 pagetoken, fetches, lastFetch, slept, pageVars, textVars>>

\* one pass of the loop that ends at a break: the HTTP response is not ok,
\* or the provider's status is neither OK nor ZERO_RESULTS
FetchFails ==
  /\ gpc = "fetch"
  /\ page < maxPages
  /\ \E cause \in {"http", "status"} : gpc' = "assemble"
  /\ page' = 0
  /\ fetches' = fetches + 1
  /\ lastFetch' = "failed"
  /\ slept' = FALSE
  /\ UNCHANGED <<route, upstream, env, query, permit, lat, lng, radiusMeters,
                 all, pagetoken, response, pageVars, textVars>>

\* a plausible slip: the token is put on the URL and the loop goes on
\* without the sleep
FetchPage_NoSleep ==
  /\ gpc = "fetch"
  /\ page < maxPages
  /\ \E results \in UpstreamPages, token \in BOOLEAN :
       /\ all' = all \o results
       /\ gpc' = IF token /\ page + 1 < maxPages THEN "fetch" ELSE "assemble"
       /\ page' = IF token /\ page + 1 < maxPages THEN page + 1 ELSE 0
       /\ pagetoken' = (pagetoken \/ token)
       /\ lastFetch' = IF token THEN "more" ELSE "last"
  /\ fetches' = fetches + 1
  /\ slept' = FALSE
  /\ UNCHANGED <<route, upstream, env, query, permit, lat, lng, radiusMeters,
                 response, pageVars, textVars>>

\* one pass of the loop that pushes the page's results: without a
\* next_page_token the loop ends, with one the function sleeps
FetchPage ==
  /\ gpc = "fetch"
  /\ page < maxPages
  /\ \E results \in UpstreamPages, token \in BOOLEAN :
       /\ all' = all \o results
       /\ gpc' = IF token THEN "sleep" ELSE "assemble"
       /\ page' = IF token THEN page ELSE 0
       /\ lastFetch' = IF token THEN "more" ELSE "last"
  /\ fetches' = fetches + 1
  /\ slept' = FALSE
  /\ UNCHANGED <<route, upstream, env, query, permit, lat, lng, radiusMeters,
                 pagetoken, response, pageVars, textVars>>

\* after sleep(2000): the pagetoken is set and page is incremented; the loop
\* goes on while page < maxPages
TokenActivated ==
  /\ gpc = "sleep"
  /\ slept' = TRUE
  /\ pagetoken' = TRUE
  /\ page' = IF page + 1 < maxPages THEN page + 1 ELSE 0
  /\ gpc' = IF page + 1 < maxPages THEN "fetch" ELSE "assemble"
  /\ UNCHANGED <<route, upstream, env, query, permit, lat, lng, radiusMeters,
                 all, fetches, lastFetch, response, pageVars, textVars>>

\* the rest of GET: de-dupe, filter, map, sort, respond
Respond ==
  /\ gpc = "assemble"
  /\ response' = ResponseBody(route, radiusMeters, all)
  /\ gpc' = "done"
  /\ UNCHANGED <<route, upstream, env, query, permit, lat, lng, radiusMeters,
                 page, all, pagetoken, fetches, lastFetch, slept,
                 pageVars, textVars>>

(***************************************************************************)
(* The page component, waiting for the response of GET                     *)
(***************************************************************************)
\* fetchCoffee, after a response that is ok:
\* setItems(data.items ?? []); setStatus("ready")
Succeeded(data) ==
  /\ items' = data
  /\ status' = "ready"
  /\ UNCHANGED error

\* fetchCoffee, the catch block: setStatus("error"); setError(message)
Failed(message) ==
  /\ status' = "error"
  /\ error' = Some(message)
  /\ UNCHANGED items

\* the response of GET arrives with a status that is ok
ReceiveItems ==
  /\ gpc = "done"
  /\ status = "loading"
  /\ Succeeded(response.items)
  /\ shownOf' = Len(issued)
  /\ UNCHANGED <<getVars, sortBy, coords, view, radiusMiles, debounce, geo,
                 inflight, issued, textVars>>

\* the response of GET arrives with a status that is not ok: fetchCoffee
\* throws data.error
ReceiveError ==
  /\ gpc = "rejected"
  /\ status = "loading"
  /\ Failed(response.error)
  /\ UNCHANGED <<getVars, sortBy, coords, view, radiusMiles, debounce, geo,
                 inflight, issued, shownOf, textVars>>

\* the select's onChange: setSortBy.  The select is on screen from the
\* moment the page has coordinates; nothing GET reads depends on sortBy, so
\* the model takes the change once the response is there.  The re-render
\* sorts a copy of items (sortedItems) and leaves items as it is.
SetSortBy ==
  /\ gpc = "done"
  /\ \E by \in {"distance", "rating"} :
       /\ by # sortBy
       /\ sortBy' = by
  /\ UNCHANGED <<getVars, items, status, error, coords, view, radiusMiles,
                 debounce, geo, inflight, issued, shownOf, textVars>>

\* useMemo(() => { const arr = [...items]; arr.sort(...); return arr })
sortedItems == Sorted(items, sortBy)

Next ==
  \/ RateLimit
  \/ Validate
  \/ FetchFails
  \/ FetchPage
  \/ TokenActivated
  \/ Respond
  \/ ReceiveItems
  \/ ReceiveError
  \/ SetSortBy

Spec == Init /\ [][Next]_vars

(***************************************************************************)
(* The page component on its own: the location button, the radius slider,  *)
(* the debounced refetch, and fetchCoffee calls answered in any order      *)
(* (the later version of the component, page.tsx from line 290)            *)
(***************************************************************************)
\* most fetchCoffee calls of one run
MaxRequests == 3

\* the slider positions the user moves between
PageMiles == {1, 3}

\* a place farther away than one mile
FarPlace == Place(1, NAME_MotoCoffee, Some(5), Some(40), Some(1800), Some(0))

\* what the provider knows around Position, nearest first
PlacesAround == <<SinglePlace, FarPlace>>

\* data.items of the response to a request with this radius: the provider
\* returns the places within the radius and GET makes its items of them
ItemsWithin(radiusM) ==
  LET within(p) == RoundedMeters(Position.lat, Position.lng, p.lat[1], p.lng[1]) <= radiusM
  IN  ResponseBody("nearby", radiusM, SelectSeq(PlacesAround, within)).items

\* fetchCoffee up to its await: setStatus("loading"); setError(null);
\* setView("list"); fetch(...)
FetchCoffee(radiusM) ==
  /\ status' = "loading"
  /\ error' = NULL
  /\ view' = "list"
  /\ issued' = Append(issued, radiusM)
  /\ inflight' = inflight \cup {Len(issued) + 1}

InitPage ==
  /\ Mounted
  /\ GetIdle
  /\ TextIdle

\* a click on "Use my location" (the button is disabled while status is
\* locating or loading): useMyLocation up to getCurrentPosition, whose
\* callbacks hold the radiusMeters of this render.  A browser without
\* geolocation ends the handler in the error state.  The model has one
\* position request pending at a time.
UseMyLocation ==
  /\ status \notin {"locating", "loading"}
  /\ geo = NULL
  /\ \E supported \in BOOLEAN :
       IF supported
         THEN /\ status' = "locating"
              /\ error' = NULL
              /\ geo' = Some(milesToMeters(radiusMiles))
         ELSE /\ status' = "error"
              /\ error' = Some("Geolocation is not supported by this browser.")
              /\ UNCHANGED geo
  /\ UNCHANGED <<getVars, items, sortBy, coords, view, radiusMiles, debounce,
                 inflight, issued, shownOf, textVars>>

\* the success callback of getCurrentPosition: setCoords, fetchCoffee
LocationFound ==
  /\ geo # NULL
  /\ Len(issued) < MaxRequests
  /\ coords' = Some(Position)
  /\ FetchCoffee(geo[1])
  /\ geo' = NULL
  /\ UNCHANGED <<getVars, items, sortBy, radiusMiles, debounce, shownOf, textVars>>

\* the error callback of getCurrentPosition
LocationFailed ==
  /\ geo # NULL
  /\ status' = "error"
  /\ error' = Some("Location permission denied.")
  /\ geo' = NULL
  /\ UNCHANGED <<getVars, items, sortBy, coords, view, radiusMiles, debounce,
                 inflight, issued, shownOf, textVars>>

\* the slider's onChange (the slider is on screen once coords is set, and
\* is never disabled): setRadiusMiles; radiusMeters changes, so the
\* effect's cleanup clears the pending timeout and the effect runs again:
\* it returns when status is locating and otherwise sets a timeout that
\* holds the new radiusMeters
SetRadiusMiles ==
  /\ coords # NULL
  /\ \E mi \in PageMiles :
       /\ mi # radiusMiles
       /\ radiusMiles' = mi
       /\ debounce' = IF status = "locating" THEN NULL ELSE Some(milesToMeters(mi))
  /\ UNCHANGED <<getVars, items, sortBy, status, error, coords, view, geo,
                 inflight, issued, shownOf, textVars>>

\* the timeout fires after 500 ms: fetchCoffee(coords.lat, coords.lng,
\* radiusMeters)
DebounceFires ==
  /\ debounce # NULL
  /\ Len(issued) < MaxRequests
  /\ FetchCoffee(debounce[1])
  /\ debounce' = NULL
  /\ UNCHANGED <<getVars, items, sortBy, coords, radiusMiles, geo, shownOf, textVars>>

\* the response of one fetchCoffee call arrives and is ok; the calls in
\* flight are answered in any order
RequestSucceeds ==
  /\ \E k \in inflight :
       /\ Succeeded(ItemsWithin(issued[k]))
       /\ inflight' = inflight \ {k}
       /\ shownOf' = k
  /\ UNCHANGED <<getVars, sortBy, coords, view, radiusMiles, debounce, geo,
                 issued, textVars>>

\* the response of one fetchCoffee call is not ok, or the fetch throws
RequestFails ==
  /\ \E k \in inflight :
       /\ Failed("Request failed")
       /\ inflight' = inflight \ {k}
  /\ UNCHANGED <<getVars, sortBy, coords, view, radiusMiles, debounce, geo,
                 issued, shownOf, textVars>>

\* the view select's onChange (on screen once coords is set)
SetView ==
  /\ coords # NULL
  /\ \E v \in {"list", "map"} :
       /\ v # view
       /\ view' = v
  /\ UNCHANGED <<getVars, items, sortBy, status, error, coords, radiusMiles,
                 debounce, geo, inflight, issued, shownOf, textVars>>

PageNext ==
  \/ UseMyLocation
  \/ LocationFound
  \/ LocationFailed
  \/ SetRadiusMiles
  \/ DebounceFires
  \/ RequestSucceeds
  \/ RequestFails
  \/ SetView

SpecPage == InitPage /\ [][PageNext]_vars

(***************************************************************************)
(* GET over every request, against a provider that knows one place         *)
(***************************************************************************)
\* process.env: the Upstash variables set or not, the key set or not
Envs == [upstash : BOOLEAN, key : BOOLEAN]

\* what a client can send as lat or lng: nothing, the empty string, two
\* numbers, a word, Infinity
CoordStrings ==
  { NULL,
    Some(<<>>),
    Some(<<"0">>),
    Some(<<"0",".","0","0","0","9">>),
    Some(<<"a","b","c">>),
    Some(<<"I","n","f","i","n","i","t","y">>) }

\* positions of the page's radius slider (1 to 60 miles)
SliderMiles == {1, 3, 31, 32, 60}

\* what a client can send as radiusMeters: nothing, the empty string, a
\* blank, a word, an infinity, numbers with a fraction, a negative number,
\* and what the page sends for the slider positions
RadiusStrings ==
  { NULL,
    Some(<<>>),
    Some(<<" ">>),
    Some(<<"a","b","c">>),
    Some(<<"-","I","n","f","i","n","i","t","y">>),
    Some(<<"4","9","9",".","5">>),
    Some(<<"1","5","0","0",".","5">>),
    Some(<<"-","3">>) }
  \cup { Some(NumberToString(milesToMeters(mi))) : mi \in SliderMiles }

Queries == [lat : CoordStrings, lng : CoordStrings, radiusMeters : RadiusStrings]

\* the older route builds its rate limiter from the Upstash variables
\* unconditionally, so it runs only where they are set
InitRequest ==
  /\ route \in {"nearby", "text"}
  /\ upstream = "single"
  /\ env \in Envs
  /\ route = "text" => env.upstash
  /\ query \in Queries
  /\ Called
  /\ Loading
  /\ TextIdle

SpecRequest == InitRequest /\ [][Next]_vars

(***************************************************************************)
(* GET under fair scheduling: the page's request against the provider      *)
(* that knows one place (every mix of tokens, errors and empty pages)      *)
(***************************************************************************)
InitLoop ==
  /\ route \in {"nearby", "text"}
  /\ upstream = "single"
  /\ env \in {e \in Envs : e.key}
  /\ route = "text" => env.upstash
  /\ query = PageQuery(Position, milesToMeters(3))
  /\ Called
  /\ Loading
  /\ TextIdle

\* the step of Respond as far as gpc goes; Respond is the only action that
\* takes gpc from "assemble" to "done" and it is enabled whenever gpc is
\* "assemble"
RespondStep == gpc = "assemble" /\ gpc' = "done"

\* the awaited calls of GET return (ratelimit.limit, fetch, sleep), and the
\* synchronous stretches between them run to their end
Fairness ==
  /\ WF_vars(RateLimit)
  /\ WF_vars(Validate)
  /\ WF_vars(FetchFails \/ FetchPage)
  /\ WF_vars(TokenActivated)
  /\ WF_gpc(RespondStep)

SpecLoop == InitLoop /\ [][Next]_vars /\ Fairness

(***************************************************************************)
(* Claims about the text functions (checked under SpecText)                *)
(***************************************************************************)
\* only lowercase ASCII letters, digits and single spaces, no space at an end
IsCanonical(s) ==
  /\ \A i \in 1..Len(s) : IsLower(s[i]) \/ IsDigit(s[i]) \/ s[i] = " "
  /\ \A i \in 1..(Len(s) - 1) : ~(s[i] = " " /\ s[i + 1] = " ")
  /\ s # <<>> => (s[1] # " " /\ s[Len(s)] # " ")

\* a brand substring other than the ambiguous "holiday" occurs in n
MatchesOtherBrand(n) ==
  \E i \in DOMAIN KNOWN_CHAINS :
    /\ KNOWN_CHAINS[i] # STR_holiday
    /\ Includes(n, NormalizedChains[i])

\* the raw name holds a "#" followed (after at most one blank) by two digits
ContainsHashNumber(s) ==
  \E i \in 1..Len(s) :
    /\ s[i] = "#"
    /\ \E w \in {0, 1} :
         /\ i + w + 2 <= Len(s)
         /\ w = 1 => IsSpace(s[i + 1])
         /\ IsDigit(s[i + w + 1])
         /\ IsDigit(s[i + w + 2])

\* C6: a name whose normalized form contains a listed brand other than
\* "holiday" is classified as a chain, whatever else the name contains.
C6_OtherBrandIsChain ==
  (tpc = "classified" /\ MatchesOtherBrand(normalize(text))) => verdict = TRUE

\* C7: when "holiday" is the only brand-list match, isChainName is true
\* exactly when "station", "store" or "gas" also occurs in the normalized
\* name; without one the result is false, whatever the structural
\* heuristics would say.
C7_HolidayNeedsCorroboration ==
  LET n == normalize(text)
  IN  (tpc = "classified" /\ Includes(n, STR_holiday) /\ ~MatchesOtherBrand(n))
        => (verdict = (Includes(n, STR_station) \/ Includes(n, STR_store)
                         \/ Includes(n, STR_gas)))

\* C7 witness: a holiday-only name without corroboration that the structural
\* heuristics would flag ("Holiday Location 34") has been classified not a chain.
C7_Witness ==
  LET n == normalize(text)
  IN  /\ tpc = "classified"
      /\ Includes(n, STR_holiday)
      /\ ~MatchesOtherBrand(n)
      /\ ~HasHolidayCorroboration(n)
      /\ MatchesStoreOrLocation(n) /\ MatchesStandaloneNumber(n)
      /\ verdict = FALSE

\* C8: a name that matches no brand substring and contains "#" followed by
\* a number of two or more digits is classified as a chain, with or without
\* the words "store" / "location".
C8_HashNumberIsChain ==
  (tpc = "classified" /\ ~MatchesKnownChain(normalize(text))
     /\ ContainsHashNumber(text)) => verdict = TRUE

\* C9: normalize(n) holds only lowercase ASCII letters, digits and single
\* spaces, has no leading or trailing space, and normalizing it again
\* changes nothing.
C9_NormalizeCanonicalIdempotent ==
  /\ tpc \in {"normalized", "renormalized"} => IsCanonical(norm)
  /\ tpc = "renormalized" => norm = prevNorm

\* C9 witness: an input with an upper-case letter, a punctuation mark and a
\* whitespace run has been normalized twice.
C9_Witness ==
  /\ tpc = "renormalized"
  /\ \E i \in 1..Len(text) : IsUpper(text[i])
  /\ \E i \in 1..Len(text) : text[i] = "#"
  /\ \E i \in 1..(Len(text) - 1) : IsSpace(text[i]) /\ IsSpace(text[i + 1])
  /\ norm # text

(***************************************************************************)
(* Claims about GET and the page's sort (checked under Spec)               *)
(***************************************************************************)
\* the positions of all that hold place id
RawPositions(id) == { i \in 1..Len(all) : all[i].place_id = id }

\* the first place with this id that the provider returned
FirstRaw(id) == all[CHOOSE i \in RawPositions(id) : \A j \in RawPositions(id) : i <= j]

FirstRawPosition(id) == CHOOSE i \in RawPositions(id) : \A j \in RawPositions(id) : i <= j

\* the positions of the response's items that hold place id
ItemPositions(id) == { i \in 1..Len(response.items) : response.items[i].placeId = id }

\* place ids the provider returned twice or more, with different content
RepeatedIds ==
  { id \in { all[i].place_id : i \in 1..Len(all) } :
      /\ id # 0
      /\ \E i, j \in RawPositions(id) : all[i] # all[j] }

\* C1: the item list GET returns never holds two items with the same
\* placeId, whatever pages (overlapping ones included) the provider sent.
C1_UniquePlaceIds ==
  gpc = "done" =>
    \A i, j \in 1..Len(response.items) :
      i # j => response.items[i].placeId # response.items[j].placeId

\* C1 witness: the provider returned the same place twice, both records
\* would pass the filter, and the place is in the response.
C1_Witness ==
  /\ gpc = "done"
  /\ \E i, j \in 1..Len(all) :
       /\ i < j
       /\ all[i].place_id # 0
       /\ all[i].place_id = all[j].place_id
       /\ KeepPlace(route, all[i])
       /\ KeepPlace(route, all[j])
       /\ ItemPositions(all[i].place_id) # {}

\* C2 (as claimed): of two raw places sharing an id but differing in
\* content exactly one survives in the output, and it is the first one.
C2_ExactlyOneSurvives ==
  gpc = "done" =>
    \A id \in RepeatedIds :
      /\ Cardinality(ItemPositions(id)) = 1
      /\ \A i \in ItemPositions(id) : response.items[i] = ToItem(FirstRaw(id))

\* C2 (amended): of the raw places sharing an id at most one survives and
\* it is never a later one: the first-encountered record is in the output
\* when it passes the filter (a name, not a chain, and in route.ts a coffee
\* word) and the cap does not cut the list; when it does not pass, no
\* record with that id is in the output.
C2_FirstOrNoneSurvives ==
  gpc = "done" =>
    \A id \in RepeatedIds :
      /\ Cardinality(ItemPositions(id)) <= 1
      /\ \A i \in ItemPositions(id) : response.items[i] = ToItem(FirstRaw(id))
      /\ ItemPositions(id) # {} => KeepPlace(route, FirstRaw(id))
      /\ (KeepPlace(route, FirstRaw(id)) /\ response.returned <= MaxResults)
           => ItemPositions(id) # {}

\* C2 witness: two records of one id with different content, each of which
\* would pass the filter; the output holds the first and not the second.
C2_Witness ==
  /\ gpc = "done"
  /\ \E i, j \in 1..Len(all) :
       /\ i < j
       /\ i = FirstRawPosition(all[i].place_id)
       /\ all[i].place_id # 0
       /\ all[i].place_id = all[j].place_id
       /\ ToItem(all[i]) # ToItem(all[j])
       /\ KeepPlace(route, all[i])
       /\ KeepPlace(route, all[j])
       /\ \E k \in 1..Len(response.items) : response.items[k] = ToItem(all[i])
       /\ ~(\E k \in 1..Len(response.items) : response.items[k] = ToItem(all[j]))

\* C3: no item of the response lacks a name or has a name that isChainName
\* classifies as a chain.
C3_NoChainNoNameless ==
  gpc = "done" =>
    \A i \in 1..Len(response.items) :
      /\ response.items[i].name # <<>>
      /\ ~isChainName(response.items[i].name)

\* C3 witness: the provider returned a chain and a place without a name,
\* both with a place_id, and the response is not empty.
C3_Witness ==
  /\ gpc = "done"
  /\ \E i \in 1..Len(all) :
       all[i].place_id # 0 /\ all[i].name # <<>> /\ isChainName(all[i].name)
  /\ \E i \in 1..Len(all) : all[i].place_id # 0 /\ all[i].name = <<>>
  /\ response.items # <<>>

\* its is in distance order with respect to the order of orig: ascending
\* distances, missing distances behind every distance, and equal distances
\* (missing ones included) in the order orig has them.  before(a, b) tells
\* whether a comes before b in orig.
InDistanceOrder(its, before(_, _)) ==
  \A i, j \in 1..Len(its) :
    i < j =>
      LET di == its[i].distanceMeters
          dj == its[j].distanceMeters
      IN  /\ (di # NULL /\ dj # NULL) => di[1] <= dj[1]
          /\ ~(di = NULL /\ dj # NULL)
          /\ di = dj => before(its[i], its[j])

\* a comes before b in the order the provider returned the places
BeforeInRaw(a, b) == FirstRawPosition(a.placeId) < FirstRawPosition(b.placeId)

PositionIn(arr, it) == CHOOSE i \in 1..Len(arr) : arr[i] = it

\* a comes before b in the page's items
BeforeInItems(a, b) == PositionIn(items, a) < PositionIn(items, b)

\* C4: under distance ordering the output is sorted non-decreasing by
\* distanceMeters, items without a distance come after every item with one,
\* and items of equal distance keep their original relative order; in GET's
\* response and in the page's sortedItems.
C4_DistanceOrderStable ==
  /\ gpc = "done" => InDistanceOrder(response.items, BeforeInRaw)
  /\ sortBy = "distance" => InDistanceOrder(sortedItems, BeforeInItems)

\* C4 witness: the sort had to move items, and the response holds two items
\* at the same distance, two without a distance, and one with a distance.
C4_Witness ==
  /\ gpc = "done"
  /\ response.returned <= MaxResults
  /\ response.items # MappedItems(route, all)
  /\ \E i, j \in 1..Len(response.items) :
       /\ i < j
       /\ response.items[i].distanceMeters # NULL
       /\ response.items[i].distanceMeters = response.items[j].distanceMeters
  /\ \E i, j \in 1..Len(response.items) :
       /\ i < j
       /\ response.items[i].distanceMeters = NULL
       /\ response.items[j].distanceMeters = NULL
  /\ items = response.items
  /\ sortBy = "distance"

\* C5: the response is capped at 60: at most 60 items, and the count it
\* reports (returned) never exceeds 60.
C5_CappedAtMaxResults ==
  gpc = "done" =>
    /\ Len(response.items) <= MaxResults
    /\ response.returned <= MaxResults

\* a result at 400 m with rating 3.0
IsNearRated3(it) == it.distanceMeters = Some(400) /\ it.rating = Some(3)

\* a result at 600 m with rating 5.0
IsFarRated5(it) == it.distanceMeters = Some(600) /\ it.rating = Some(5)

\* C10: under the strategy that ranks by quality as well as distance (the
\* spec's "composite"; the only strategy of the program besides "distance"
\* is sortBy = "rating"), a result at 400 m with rating 3.0 ranks above a
\* result at 600 m with rating 5.0.
C10_TierDominatesScore ==
  sortBy # "distance" =>
    \A i, j \in 1..Len(sortedItems) :
      (IsNearRated3(sortedItems[i]) /\ IsFarRated5(sortedItems[j])) => i < j

\* C11: every item of the response has a distanceMeters that is absent or a
\* non-negative integer; it is absent exactly when the place the item was
\* made from lacks a latitude or a longitude, so a place with both
\* coordinates always gets a distance.
C11_DistanceIffCoordinates ==
  gpc = "done" =>
    \A i \in 1..Len(response.items) :
      LET it == response.items[i]
          p == FirstRaw(it.placeId)
      IN  /\ it.distanceMeters = NULL <=> (p.lat = NULL \/ p.lng = NULL)
          /\ it.distanceMeters # NULL => it.distanceMeters[1] \in Nat

\* C11 witness: the response holds an item made from a place with a latitude
\* and no longitude, which has no distance, and one from a place with both,
\* at a distance above zero.
C11_Witness ==
  /\ gpc = "done"
  /\ \E i \in 1..Len(response.items) :
       /\ FirstRaw(response.items[i].placeId).lat # NULL
       /\ FirstRaw(response.items[i].placeId).lng = NULL
       /\ response.items[i].distanceMeters = NULL
  /\ \E i \in 1..Len(response.items) :
       /\ FirstRaw(response.items[i].placeId).lat # NULL
       /\ FirstRaw(response.items[i].placeId).lng # NULL
       /\ response.items[i].distanceMeters # NULL
       /\ response.items[i].distanceMeters[1] > 0

\* a place the provider returned that has a name, is no chain, is the first
\* with its place_id, and has no coffee word in its name
IsNamedNonChainWithoutHint(i) ==
  /\ all[i].place_id # 0
  /\ i = FirstRawPosition(all[i].place_id)
  /\ all[i].name # <<>>
  /\ ~isChainName(all[i].name)
  /\ ~looksLikeCoffeePlace(all[i].name)

\* C17: when the upstream query constrains the category (route.ts asks for
\* type=cafe), a named non-chain place whose name has no coffee-hint
\* substring is not dropped solely because looksLikeCoffeePlace is false: it
\* is in the response unless the cap cut the list.
C17_HintNotSoleGate ==
  (gpc = "done" /\ route = "nearby" /\ response.returned <= MaxResults) =>
    \A i \in 1..Len(all) :
      IsNamedNonChainWithoutHint(i) => ItemPositions(all[i].place_id) # {}

\* C12: when an upstream fetch ends in an error the error is surfaced: the
\* response for a failed upstream differs from the response for a
\* successful upstream that returned zero results.
C12_FailureDistinguishable ==
  (gpc = "done" /\ lastFetch = "failed")
    => response # ResponseBody(route, radiusMeters, <<>>)

\* a stands before b in the rating order or ties with it: a higher rating;
\* on equal ratings a higher ratingsTotal; on equal ratings and totals a
\* distance that is not larger, a missing distance behind every distance
\* (missing rating and ratingsTotal count as 0)
RatingOrdered(a, b) ==
  LET ar == IF a.rating = NULL THEN 0 ELSE a.rating[1]
      br == IF b.rating = NULL THEN 0 ELSE b.rating[1]
      av == IF a.ratingsTotal = NULL THEN 0 ELSE a.ratingsTotal[1]
      bv == IF b.ratingsTotal = NULL THEN 0 ELSE b.ratingsTotal[1]
      da == a.distanceMeters
      db == b.distanceMeters
  IN  \/ ar > br
      \/ ar = br /\ av > bv
      \/ /\ ar = br
         /\ av = bv
         /\ ~(da = NULL /\ db # NULL)
         /\ (da # NULL /\ db # NULL) => da[1] <= db[1]

\* every element of out stands before the later ones in the rating order
InRatingOrder(out) ==
  \A i, j \in 1..Len(out) : i < j => RatingOrdered(out[i], out[j])

\* how often it occurs in arr
Occurrences(arr, it) == Cardinality({ i \in 1..Len(arr) : arr[i] = it })

\* out holds the elements of arr, each as often as arr
IsPermutation(out, arr) ==
  /\ Len(out) = Len(arr)
  /\ \A i \in 1..Len(arr) : Occurrences(out, arr[i]) = Occurrences(arr, arr[i])

\* two neighbours of out tie on rating and differ in ratingsTotal, and two
\* tie on both, the first with a distance and the second without
HasRatingTies(out) ==
  /\ \E i \in 1..(Len(out) - 1) :
       /\ out[i].rating = out[i + 1].rating
       /\ out[i].ratingsTotal # out[i + 1].ratingsTotal
  /\ \E i \in 1..(Len(out) - 1) :
       /\ out[i].rating = out[i + 1].rating
       /\ out[i].ratingsTotal = out[i + 1].ratingsTotal
       /\ out[i].distanceMeters # NULL
       /\ out[i + 1].distanceMeters = NULL

\* C15: under the page's rating sort the output is ordered by rating
\* descending, then ratingsTotal descending, then distanceMeters ascending
\* (missing rating and ratingsTotal as 0, missing distance last), it is a
\* permutation of items, and items is left as it was received.
C15_RatingSortOrdersCopy ==
  sortBy = "rating" =>
    /\ InRatingOrder(sortedItems)
    /\ IsPermutation(sortedItems, items)
    /\ items = IF shownOf = 0 THEN <<>> ELSE response.items

\* C15 witness: the page shows received items sorted by rating, the sort
\* moved items, two neighbours of the output tie on rating and differ in
\* ratingsTotal, and two tie on both, the first with a distance and the
\* second without.
C15_Witness ==
  /\ sortBy = "rating"
  /\ shownOf # 0
  /\ HasRatingTies(sortedItems)
  /\ sortedItems # items

(***************************************************************************)
(* Claims about the request handling (checked under SpecRequest)           *)
(***************************************************************************)
\* lat and lng are both present and parse to finite numbers
CoordinatesValid ==
  /\ ~Falsy(query.lat)
  /\ ~Falsy(query.lng)
  /\ isFinite(Number(query.lat[1]))
  /\ isFinite(Number(query.lng[1]))

\* GET has returned
Returned == gpc \in {"done", "rejected"}

\* C13 (as claimed): an upstream fetch happens only after the rate limiter,
\* when configured, has permitted the client, and only when lat and lng are
\* present and finite; a denied client gets a 429 and missing or non-finite
\* coordinates get a 400, each without any upstream fetch.
C13_FetchOnlyAfterChecks ==
  /\ fetches > 0 =>
       /\ HasRatelimit(route, env) => permit = "granted"
       /\ CoordinatesValid
  /\ permit = "denied" =>
       (gpc = "rejected" /\ response.status = 429 /\ fetches = 0)
  /\ (Returned /\ permit # "denied" /\ ~CoordinatesValid) =>
       (gpc = "rejected" /\ response.status = 400 /\ fetches = 0)

\* C13 (amended): an upstream fetch happens only after the rate limiter,
\* when configured, has permitted the client, and only when the API key is
\* set and lat and lng are present and finite; a denied client gets a 429,
\* a permitted one gets a 500 when the key is not set and otherwise a 400
\* when a coordinate is missing or not finite, each without any upstream
\* fetch.
C13_FetchOnlyAfterChecksAndKey ==
  /\ fetches > 0 =>
       /\ HasRatelimit(route, env) => permit = "granted"
       /\ env.key
       /\ CoordinatesValid
  /\ permit = "denied" =>
       (gpc = "rejected" /\ response.status = 429 /\ fetches = 0)
  /\ (Returned /\ permit # "denied" /\ ~env.key) =>
       (gpc = "rejected" /\ response.status = 500 /\ fetches = 0)
  /\ (Returned /\ permit # "denied" /\ env.key /\ ~CoordinatesValid) =>
       (gpc = "rejected" /\ response.status = 400 /\ fetches = 0)

\* C13 witness: the limiter permitted the client, the key is set, lat is
\* present and not a finite number, and GET answered 400 without a fetch.
C13_Witness ==
  /\ gpc = "rejected"
  /\ permit = "granted"
  /\ env.key
  /\ ~Falsy(query.lat)
  /\ ~Falsy(query.lng)
  /\ ~isFinite(Number(query.lat[1]))
  /\ response.status = 400
  /\ fetches = 0

\* C14: the effective radius sent upstream and reported in the response is
\* an integer in 500..50000: 5000 when the parameter is absent (null or
\* empty) or does not parse to a finite number, and otherwise the rounded
\* request clamped to that range.
C14_RadiusInProviderRange ==
  gpc \in {"fetch", "sleep", "assemble", "done"} =>
    /\ radiusMeters \in MinRadius..MaxRadiusNearby
    /\ IF Falsy(query.radiusMeters) \/ ~isFinite(Number(query.radiusMeters[1]))
         THEN radiusMeters = DefaultRadius
         ELSE radiusMeters =
                Max(MinRadius, Min(MaxRadiusNearby, Round(Number(query.radiusMeters[1]))))
    /\ gpc = "done" => response.radiusMeters = radiusMeters

\* an upper bound on the steps GET still takes before it returns: two per
\* page the loop may still fetch (the fetch and the sleep), and the steps
\* before and after the loop
StepsLeft ==
  CASE gpc = "start" -> 2 * maxPages + 3
    [] gpc = "validate" -> 2 * maxPages + 2
    [] gpc = "fetch" -> 2 * (maxPages - page) + 1
    [] gpc = "sleep" -> 2 * (maxPages - page)
    [] gpc = "assemble" -> 1
    [] OTHER -> 0

\* C16: the pagination loop performs at most maxPages fetches per request,
\* fetches again only after a page that came with a continuation token (not
\* after a failed fetch, not after a page without a token), and every fetch
\* that uses a continuation token comes after the delay; GET always
\* terminates: each of its steps lowers StepsLeft, a natural number, so no
\* sequence of provider responses keeps it running, and under fair
\* scheduling it returns.
C16_LoopBoundedAndTerminates ==
  /\ <>Returned
  /\ [](fetches <= maxPages /\ StepsLeft \in Nat)
  /\ [][fetches' # fetches =>
          /\ fetches' = fetches + 1
          /\ lastFetch \in {"none", "more"}
          /\ pagetoken => slept]_vars
  /\ [][gpc \notin {"done", "rejected"} => StepsLeft' < StepsLeft]_vars

\* C16 witness: three fetches, each answered with a continuation token, the
\* third made with a token after the delay, and GET has returned.
C16_Witness ==
  /\ gpc = "done"
  /\ fetches = maxPages
  /\ lastFetch = "more"
  /\ pagetoken
  /\ slept

(***************************************************************************)
(* Claims about the page component (checked under SpecPage)                *)
(***************************************************************************)
\* C18: once no fetch is in flight, the items on display are those of the
\* most recently issued request: an older response never overwrites a newer
\* one.
C18_LatestRequestShown ==
  (inflight = {} /\ status = "ready") =>
    /\ shownOf = Len(issued)
    /\ items = ItemsWithin(issued[Len(issued)])

\* C19: in every reachable state with status "ready" the error message is
\* null, and it is non-null only with status "error".
C19_ReadyHasNoError ==
  /\ status = "ready" => error = NULL
  /\ error # NULL => status = "error"

=============================================================================
